---- MODULE Spec2Model ----
(***************************************************************************)
(* A model of codeflow_backend.py: the Socket.IO event handlers (connect,  *)
(* disconnect, send_message, start_screen_sharing) and the two HTTP        *)
(* endpoints of the model directory (/api/models, /api/switch_model).      *)
(*                                                                         *)
(* The server runs under eventlet with monkey patching: every handler is a *)
(* green thread that yields at its blocking calls to the completion and    *)
(* speech services.  A handler is therefore modelled as one action per     *)
(* stretch of code between two blocking calls.                             *)
(***************************************************************************)
EXTENDS Integers, Sequences, FiniteSets, TLC

(* ------------------------------ bounds -------------------------------- *)

\* Number of client connections (session ids) the transport ever hands out.
NumConns == 2

\* Number of handlers that may be blocked in an upstream call at one time.
MaxPending == 2

\* Longest model name, in characters, of the model directory's inputs.
MaxNameLen == 2

\* Longest model list the provider returns.
MaxModels == 2

(* --------------------------- Python values ---------------------------- *)

\* Python's None, as returned by dict.get without a default.
None == "<None>"

\* dict.get(key, default) on a dict modelled as a function over its keys.
Get(d, k, default) == IF k \in DOMAIN d THEN d[k] ELSE default

\* Truth value of a string-or-None in an `if`.
Truthy(v) == v \notin {None, ""}

\* d with d[k] = v added (response_data['audio'] = ...).
SetItem(d, k, v) == [x \in DOMAIN d \cup {k} |-> IF x = k THEN v ELSE d[x]]

\* The dict with no keys.
EmptyDict == [x \in {} |-> ""]

(* ------------------------------ state --------------------------------- *)

VARIABLES
    status,     \* status[c]: "new", "connected" or "closed", per session id
    pending,    \* pending[i]: a handler blocked in an upstream call, or Idle
    last,       \* the handler run that finished most recently
    httpPc,     \* "idle" before the HTTP request is served, "done" after
    provider,   \* what genai.list_models() yields for the HTTP request
    providerFails, \* whether genai.list_models() raises
    body,       \* request.json of the HTTP request
    httpResp    \* the HTTP response

vars == <<status, pending, last, httpPc, provider, providerFails, body, httpResp>>

sockVars == <<status, pending, last>>

httpVars == <<httpPc, provider, providerFails, body, httpResp>>

Conns == 1 .. NumConns

Slots == 1 .. MaxPending

Connected == {c \in Conns : status[c] = "connected"}

\* Marks an emit made without room=: Flask-SocketIO sends it to every client.
NoRoom == 0

Idle == [pc |-> "idle", sid |-> 0, data |-> EmptyDict, text |-> "",
         response_data |-> EmptyDict, calls |-> <<>>]

NoRun == [kind |-> "none", sid |-> 0, data |-> EmptyDict, isDict |-> TRUE,
          gen |-> "none", tts |-> "none", text |-> "", calls |-> <<>>,
          emits |-> <<>>]

\* The import guard at the top of the file.  When the import fails the except
\* branch calls logger.warning before logger is assigned (line 24), so the
\* module raises NameError and no server starts: every running server has
\* TEXTTOSPEECH_AVAILABLE = True.
TEXTTOSPEECH_AVAILABLE == TRUE

(* --------------------- inputs of the socket handlers ------------------- *)

\* send_message payloads: the dict with no key (every default applies), one
\* with an empty model name, one with a model name, system instructions and
\* voice, and a payload that is no dict.  The values carry no structure the
\* handlers look at beyond presence, emptiness and truth.
SendPayloads ==
    {[isDict |-> TRUE, data |-> EmptyDict],
     [isDict |-> TRUE,
      data |-> [message |-> "hi", model |-> "", temperature |-> "0.7"]],
     [isDict |-> TRUE,
      data |-> [message |-> "hi", model |-> "gemini-1.5-flash",
                systemInstructions |-> "Be brief", enable_voice |-> TRUE]],
     [isDict |-> FALSE, data |-> EmptyDict]}

\* start_screen_sharing payloads: screen_data absent, empty and present, and
\* a payload that is no dict.
ScreenPayloads ==
    {[isDict |-> TRUE, data |-> EmptyDict],
     [isDict |-> TRUE, data |-> [k \in {"screen_data"} |-> ""]],
     [isDict |-> TRUE, data |-> [k \in {"screen_data"} |-> "img"]],
     [isDict |-> FALSE, data |-> EmptyDict]}

\* What model.generate_content / response.text may do: return text or raise.
GenOutcomes == {[ok |-> TRUE, text |-> "Hello!", err |-> ""],
                [ok |-> FALSE, text |-> "", err |-> "429 quota exceeded"]}

\* What the speech service may do: return MP3 bytes or raise.
SynthOutcomes == {[ok |-> TRUE, audio |-> <<73, 68, 51, 4>>, err |-> ""],
                  [ok |-> FALSE, audio |-> <<>>, err |-> "503 unavailable"]}

(* ------------------------------ helpers ------------------------------- *)

B64Alphabet ==
    <<"A","B","C","D","E","F","G","H","I","J","K","L","M","N","O","P",
      "Q","R","S","T","U","V","W","X","Y","Z","a","b","c","d","e","f",
      "g","h","i","j","k","l","m","n","o","p","q","r","s","t","u","v",
      "w","x","y","z","0","1","2","3","4","5","6","7","8","9","+","/">>

B64Char(n) == B64Alphabet[n + 1]

\* base64.b64encode(bytes).decode('utf-8')
RECURSIVE b64encode(_)
b64encode(bs) ==
    IF Len(bs) = 0 THEN ""
    ELSE IF Len(bs) = 1 THEN
        B64Char(bs[1] \div 4) \o B64Char((bs[1] % 4) * 16) \o "=="
    ELSE IF Len(bs) = 2 THEN
        B64Char(bs[1] \div 4)
            \o B64Char((bs[1] % 4) * 16 + bs[2] \div 16)
            \o B64Char((bs[2] % 16) * 4) \o "="
    ELSE
        B64Char(bs[1] \div 4)
            \o B64Char((bs[1] % 4) * 16 + bs[2] \div 16)
            \o B64Char((bs[2] % 16) * 4 + bs[3] \div 64)
            \o B64Char(bs[3] % 64)
            \o b64encode(SubSeq(bs, 4, Len(bs)))

\* socketio.emit(event, payload, room=room) while `members` are connected:
\* without room= the event goes to every connected client, with room=sid to
\* the members of sid's own room.
emit(event, payload, room, members) ==
    [event |-> event, payload |-> payload, room |-> room,
     recv |-> IF room = NoRoom THEN members ELSE members \cap {room}]

\* text_to_speech(text): raises when the library is missing or the service
\* call fails, and returns the audio bytes otherwise.
text_to_speech(text, synth) ==
    IF ~TEXTTOSPEECH_AVAILABLE
    THEN [raised |-> TRUE, audio |-> <<>>,
          err |-> "Google Cloud Text-to-Speech library not installed"]
    ELSE IF ~synth.ok
    THEN [raised |-> TRUE, audio |-> <<>>, err |-> synth.err]
    ELSE [raised |-> FALSE, audio |-> synth.audio, err |-> ""]

\* The default model name of handle_send_message.
SendDefaultModel == "gemini-pro"

\* model_name = data.get('model', 'gemini-pro')
SendModelName(data) == Get(data, "model", SendDefaultModel)

\* full_prompt: the message, behind the system instructions when given.
FullPrompt(system_instructions, message) ==
    IF Truthy(system_instructions)
    THEN system_instructions \o "\n\nUser: " \o message
    ELSE message

\* The call model.generate_content(full_prompt, generation_config=...) that
\* handle_send_message makes for `data`.
SendCall(data) ==
    [model |-> SendModelName(data),
     prompt |-> FullPrompt(Get(data, "systemInstructions", ""),
                           Get(data, "message", "")),
     temperature |-> Get(data, "temperature", "0.7")]

\* Whether handle_send_message goes on to synthesize speech.
WantsVoice(data) == Get(data, "enable_voice", FALSE) = TRUE /\ TEXTTOSPEECH_AVAILABLE

\* VoiceResponse with an except branch that only logs.
VoiceResponseDropsError(response_data, tts) ==
    IF tts.raised
    THEN response_data
    ELSE SetItem(response_data, "audio", b64encode(tts.audio))

\* response_data after the voice block, given what text_to_speech did.
VoiceResponse(response_data, tts) ==
    IF tts.raised
    THEN SetItem(response_data, "voice_error", tts.err)
    ELSE SetItem(response_data, "audio", b64encode(tts.audio))

\* ReceiveMessageEmit without room=, as the other handlers emit.
ReceiveMessageEmitBroadcast(sid, response_data, members) ==
    emit("receive_message", response_data, NoRoom, members)

\* socketio.emit('receive_message', response_data, room=request.sid)
ReceiveMessageEmit(sid, response_data, members) ==
    emit("receive_message", response_data, sid, members)

\* The emit of handle_send_message's except branch.
SendErrorEmit(sid, err, members) ==
    emit("error", [error |-> err, status |-> "error"], sid, members)

\* The emit of handle_connect.
ConnectEmits(sid, members) ==
    <<emit("connection_status", [status |-> "connected", sid |-> sid],
           NoRoom, members)>>

\* HasScreenData as `if screen_data is not None:`.
HasScreenDataNotNone(data) == Get(data, "screen_data", None) # None

\* if screen_data:
HasScreenData(data) == Truthy(Get(data, "screen_data", None))

\* The call model.generate_content([...]) that handle_screen_sharing makes.
ScreenCall(data) ==
    [model |-> Get(data, "model", "gemini-pro-vision"),
     prompt |-> <<"Analyze this screenshot and provide helpful insights or answer any questions visible in the content:",
                  Get(data, "screen_data", None)>>,
     temperature |-> None]

\* The emits of handle_screen_sharing: none of them names a room.
ScreenResponseEmit(sid, text, members) ==
    emit("screen_sharing_response", [response |-> text], NoRoom, members)

ScreenStatusEmit(sid, members) ==
    emit("screen_sharing_status",
         [status |-> "Screen sharing started, waiting for data"],
         NoRoom, members)

ScreenErrorEmit(sid, err, members) ==
    emit("error", [error |-> err], NoRoom, members)

\* str(e) of the AttributeError that data.get raises on a payload that is
\* no dict.
NotADictError == "'str' object has no attribute 'get'"

FreeSlots == {i \in Slots : pending[i].pc = "idle"}

\* The slot a new green thread takes.
NewSlot == CHOOSE i \in FreeSlots : \A j \in FreeSlots : i <= j

\* A finished run of a handler, as `last` records it: the event and its
\* payload, what the completion call did (gen: "none", "ok" or "fail", and
\* the text it returned), what the speech call did (tts), the completion
\* calls made and the events emitted.
Run(kind, sid, data, isDict, gen, tts, text, calls, emits) ==
    [kind |-> kind, sid |-> sid, data |-> data, isDict |-> isDict,
     gen |-> gen, tts |-> tts, text |-> text, calls |-> calls, emits |-> emits]

(* ------------------------- the socket handlers ------------------------ *)

\* handle_connect: the transport has registered the client when the handler
\* runs, so the client itself is among the receivers.
handle_connect(c) ==
    /\ status[c] = "new"
    /\ status' = [status EXCEPT ![c] = "connected"]
    /\ last' = Run("connect", c, EmptyDict, TRUE, "none", "none", "", <<>>,
                   ConnectEmits(c, Connected \cup {c}))
    /\ UNCHANGED <<pending, httpVars>>

\* handle_disconnect: logs only.  Handlers of the client that are blocked in
\* an upstream call keep running.
handle_disconnect(c) ==
    /\ status[c] = "connected"
    /\ status' = [status EXCEPT ![c] = "closed"]
    /\ last' = Run("disconnect", c, EmptyDict, TRUE, "none", "none", "", <<>>,
                   <<>>)
    /\ UNCHANGED <<pending, httpVars>>

\* handle_send_message up to the blocking model.generate_content call.  On a
\* payload that is no dict data.get raises and the except branch answers.
handle_send_message(c, p) ==
    /\ status[c] = "connected"
    /\ IF ~p.isDict
       THEN /\ last' = Run("send", c, p.data, FALSE, "none", "none", "", <<>>,
                           <<SendErrorEmit(c, NotADictError, Connected)>>)
            /\ UNCHANGED pending
       ELSE /\ FreeSlots # {}
            /\ pending' = [pending EXCEPT ![NewSlot] =
                   [pc |-> "generate", sid |-> c, data |-> p.data, text |-> "",
                    response_data |-> EmptyDict, calls |-> <<SendCall(p.data)>>]]
            /\ UNCHANGED last
    /\ UNCHANGED <<status, httpVars>>

\* handle_send_message from the return of generate_content: either the except
\* branch, or response_data and then the emit or the blocking speech call.
handle_send_message_generated(i, out) ==
    /\ pending[i].pc = "generate"
    /\ LET h == pending[i]
           response_data == [response |-> out.text, status |-> "success"]
       IN  IF ~out.ok
           THEN /\ last' = Run("send", h.sid, h.data, TRUE, "fail", "none", "", h.calls,
                               <<SendErrorEmit(h.sid, out.err, Connected)>>)
                /\ pending' = [pending EXCEPT ![i] = Idle]
           ELSE IF WantsVoice(h.data)
           THEN /\ pending' = [pending EXCEPT ![i] =
                       [h EXCEPT !.pc = "tts", !.text = out.text,
                                 !.response_data = response_data]]
                /\ UNCHANGED last
           ELSE /\ last' = Run("send", h.sid, h.data, TRUE, "ok", "none", out.text, h.calls,
                               <<ReceiveMessageEmit(h.sid, response_data, Connected)>>)
                /\ pending' = [pending EXCEPT ![i] = Idle]
    /\ UNCHANGED <<status, httpVars>>

\* handle_send_message from the return of text_to_speech to its end.
handle_send_message_spoken(i, synth) ==
    /\ pending[i].pc = "tts"
    /\ LET h == pending[i]
           tts == text_to_speech(h.text, synth)
           response_data == VoiceResponse(h.response_data, tts)
       IN  /\ last' = Run("send", h.sid, h.data, TRUE, "ok",
                          IF tts.raised THEN "fail" ELSE "ok", h.text, h.calls,
                          <<ReceiveMessageEmit(h.sid, response_data, Connected)>>)
           /\ pending' = [pending EXCEPT ![i] = Idle]
    /\ UNCHANGED <<status, httpVars>>

\* handle_screen_sharing up to the blocking model.generate_content call, or
\* to its end when there is no screen data or the payload is no dict.
handle_screen_sharing(c, p) ==
    /\ status[c] = "connected"
    /\ IF ~p.isDict
       THEN /\ last' = Run("screen", c, p.data, FALSE, "none", "none", "", <<>>,
                           <<ScreenErrorEmit(c, NotADictError, Connected)>>)
            /\ UNCHANGED pending
       ELSE IF HasScreenData(p.data)
       THEN /\ FreeSlots # {}
            /\ pending' = [pending EXCEPT ![NewSlot] =
                   [pc |-> "vision", sid |-> c, data |-> p.data, text |-> "",
                    response_data |-> EmptyDict, calls |-> <<ScreenCall(p.data)>>]]
            /\ UNCHANGED last
       ELSE /\ last' = Run("screen", c, p.data, TRUE, "none", "none", "", <<>>,
                           <<ScreenStatusEmit(c, Connected)>>)
            /\ UNCHANGED pending
    /\ UNCHANGED <<status, httpVars>>

\* handle_screen_sharing from the return of generate_content to its end.
handle_screen_sharing_generated(i, out) ==
    /\ pending[i].pc = "vision"
    /\ LET h == pending[i]
       IN  /\ last' = Run("screen", h.sid, h.data, TRUE,
                          IF out.ok THEN "ok" ELSE "fail", "none", out.text,
                          h.calls,
                          IF out.ok
                          THEN <<ScreenResponseEmit(h.sid, out.text, Connected)>>
                          ELSE <<ScreenErrorEmit(h.sid, out.err, Connected)>>)
           /\ pending' = [pending EXCEPT ![i] = Idle]
    /\ UNCHANGED <<status, httpVars>>

(* --------------------------- model directory -------------------------- *)

\* Model names are strings over a lower-case and an upper-case letter, which is
\* what substring matching and its case sensitivity can tell apart.
Chars == {"g", "G"}

RECURSIVE StringsUpTo(_)
StringsUpTo(n) ==
    IF n = 0 THEN {<<>>}
    ELSE LET shorter == StringsUpTo(n - 1)
         IN  shorter \cup {Append(s, ch) : s \in shorter, ch \in Chars}

Names == StringsUpTo(MaxNameLen)

\* The default of data.get('model', ...) in switch_model ('gemini-pro'), as a
\* name over Chars.
DefaultModel == <<"g", "g">>

\* The models genai.list_models() may yield.
ProviderModels ==
    [name : Names,
     supported_generation_methods : {{"generateContent"}, {"embedContent"}}]

RECURSIVE ListsUpTo(_, _)
ListsUpTo(S, n) ==
    IF n = 0 THEN {<<>>}
    ELSE LET shorter == ListsUpTo(S, n - 1)
         IN  shorter \cup {Append(l, x) : l \in shorter, x \in S}

ProviderLists == ListsUpTo(ProviderModels, MaxModels)

\* request.json of POST /api/switch_model: with or without the 'model' key.
Bodies == {EmptyDict} \cup {[k \in {"model"} |-> n] : n \in Names}

\* model_names[:5] in the not-found message.
SampleSize == 5

\* Python's `sub in s` on strings, scanning the start positions left to right.
RECURSIVE InFrom(_, _, _)
InFrom(sub, s, i) ==
    IF i + Len(sub) - 1 > Len(s) THEN FALSE
    ELSE IF SubSeq(s, i, i + Len(sub) - 1) = sub THEN TRUE
    ELSE InFrom(sub, s, i + 1)

In(sub, s) == InFrom(sub, s, 1)

\* [f(x) for x in l]
RECURSIVE NamesOf(_)
NamesOf(models) ==
    IF models = <<>> THEN <<>>
    ELSE <<Head(models).name>> \o NamesOf(Tail(models))

\* FindMatch without the break: the last name that contains new_model.
RECURSIVE FindLastMatch(_, _)
FindLastMatch(new_model, model_names) ==
    IF model_names = <<>> THEN None
    ELSE LET later == FindLastMatch(new_model, Tail(model_names))
         IN  IF later # None THEN later
             ELSE IF In(new_model, Head(model_names)) THEN Head(model_names)
             ELSE None

\* FindMatch that falls back to the requested name when nothing matches.
RECURSIVE FindMatchOrRequested(_, _)
FindMatchOrRequested(new_model, model_names) ==
    IF model_names = <<>> THEN new_model
    ELSE IF In(new_model, Head(model_names)) THEN Head(model_names)
    ELSE FindMatchOrRequested(new_model, Tail(model_names))

\* The loop of switch_model: the first name that contains new_model, or None.
RECURSIVE FindMatch(_, _)
FindMatch(new_model, model_names) ==
    IF model_names = <<>> THEN None
    ELSE IF In(new_model, Head(model_names)) THEN Head(model_names)
    ELSE FindMatch(new_model, Tail(model_names))

\* `not matched_model`: None and the empty string are both false.
NotMatched(matched_model) == matched_model = None \/ matched_model = <<>>

\* The list comprehension of get_available_models.
RECURSIVE ModelList(_)
ModelList(models) ==
    IF models = <<>> THEN <<>>
    ELSE (IF "generateContent" \in Head(models).supported_generation_methods
          THEN <<[name |-> Head(models).name,
                  supported_generation_methods |->
                      Head(models).supported_generation_methods]>>
          ELSE <<>>) \o ModelList(Tail(models))

\* str(e) of what genai.list_models() raises.
ProviderError == "503 provider unavailable"

\* The response of get_available_models.
ModelsResponse(fails, models) ==
    IF fails
    THEN [endpoint |-> "models", code |-> 500, json |-> [error |-> ProviderError]]
    ELSE [endpoint |-> "models", code |-> 200,
          json |-> [status |-> "success", models |-> ModelList(models)]]

\* The response of switch_model.
SwitchResponse(fails, models, data) ==
    LET new_model == Get(data, "model", DefaultModel)
        model_names == NamesOf(models)
        matched_model == FindMatch(new_model, model_names)
    IN  IF fails
        THEN [endpoint |-> "switch_model", code |-> 500,
              json |-> [status |-> "error", error |-> ProviderError]]
        ELSE IF NotMatched(matched_model)
        THEN [endpoint |-> "switch_model", code |-> 400,
              json |-> [status |-> "error",
                        error |-> <<"Model ", new_model,
                                    " not found. Available models: ",
                                    SubSeq(model_names, 1,
                                           IF Len(model_names) < SampleSize
                                           THEN Len(model_names) ELSE SampleSize),
                                    "...">>]]
        ELSE [endpoint |-> "switch_model", code |-> 200,
              json |-> [status |-> "success", model |-> matched_model]]

\* GET /api/models
get_available_models ==
    /\ httpPc = "idle"
    /\ httpPc' = "done"
    /\ httpResp' = ModelsResponse(providerFails, provider)
    /\ UNCHANGED <<provider, providerFails, body, sockVars>>

\* POST /api/switch_model
switch_model ==
    /\ httpPc = "idle"
    /\ httpPc' = "done"
    /\ httpResp' = SwitchResponse(providerFails, provider, body)
    /\ UNCHANGED <<provider, providerFails, body, sockVars>>

HttpIdle == [endpoint |-> "none", code |-> 0, json |-> EmptyDict]

Init ==
    /\ status = [c \in Conns |-> "new"]
    /\ pending = [i \in Slots |-> Idle]
    /\ last = NoRun
    /\ httpPc = "idle"
    /\ provider = <<>>
    /\ providerFails = FALSE
    /\ body = EmptyDict
    /\ httpResp = HttpIdle

Next ==
    \/ \E c \in Conns : handle_connect(c)
    \/ \E c \in Conns : handle_disconnect(c)
    \/ \E c \in Conns : \E p \in SendPayloads : handle_send_message(c, p)
    \/ \E i \in Slots : \E out \in GenOutcomes : handle_send_message_generated(i, out)
    \/ \E i \in Slots : \E synth \in SynthOutcomes : handle_send_message_spoken(i, synth)
    \/ \E c \in Conns : \E p \in ScreenPayloads : handle_screen_sharing(c, p)
    \/ \E i \in Slots : \E out \in GenOutcomes : handle_screen_sharing_generated(i, out)

Spec == Init /\ [][Next]_vars

\* One HTTP request against one state of the provider.
InitHttp ==
    /\ status = [c \in Conns |-> "new"]
    /\ pending = [i \in Slots |-> Idle]
    /\ last = NoRun
    /\ httpPc = "idle"
    /\ providerFails \in BOOLEAN
    /\ provider \in (IF providerFails THEN {<<>>} ELSE ProviderLists)
    /\ body \in Bodies
    /\ httpResp = HttpIdle

NextHttp ==
    \/ get_available_models
    \/ switch_model

SpecHttp == InitHttp /\ [][NextHttp]_vars

(* ------------------------------ properties ---------------------------- *)

\* Handlers blocked in an upstream call.
Blocked == {i \in Slots : pending[i].pc # "idle"}

\* sub occurs in s as a contiguous run of equal characters.
Contains(sub, s) ==
    \E k \in 0 .. (Len(s) - Len(sub)) :
        \A j \in 1 .. Len(sub) : s[k + j] = sub[j]

\* The name POST /api/switch_model was asked for.
RequestedName == Get(body, "model", DefaultModel)

SwitchDone == httpPc = "done" /\ httpResp.endpoint = "switch_model"

ModelsDone == httpPc = "done" /\ httpResp.endpoint = "models"

\* C1: a send_message request is answered by exactly one event, a
\* receive_message or an error, addressed to the requester's own room: the
\* requester receives it when still connected and no other connection ever
\* does.  No handler emits before it ends, so a finished run shows all of it.
C1_SendAnsweredOnceToSender ==
    last.kind = "send" =>
        /\ Len(last.emits) = 1
        /\ last.emits[1].event \in {"receive_message", "error"}
        /\ (last.emits[1].event = "error") = (last.gen # "ok")
        /\ last.emits[1].room = last.sid
        /\ last.emits[1].recv \subseteq {last.sid}
        /\ (status[last.sid] = "connected" => last.emits[1].recv = {last.sid})

\* C1 witness: a request is answered to its sender while another connection
\* is connected and has a handler of its own blocked in an upstream call.
C1_Witness ==
    /\ last.kind = "send"
    /\ last.gen = "ok"
    /\ last.emits[1].recv = {last.sid}
    /\ \E i \in Blocked :
          /\ pending[i].sid # last.sid
          /\ status[pending[i].sid] = "connected"

\* C2: a connect is acknowledged by exactly two signals, connection_status
\* and server_ready, and only the connecting connection receives them.
C2_ConnectTwoAcksToSender ==
    last.kind = "connect" =>
        /\ Len(last.emits) = 2
        /\ {last.emits[k].event : k \in 1 .. Len(last.emits)}
               = {"connection_status", "server_ready"}
        /\ \A k \in 1 .. Len(last.emits) : last.emits[k].recv \subseteq {last.sid}

\* C3: with enable_voice set, a completion that succeeded and a speech
\* synthesis that failed, the one event is a receive_message that carries the
\* generated text, status success and voice_error, and no audio.
C3_VoiceFailureKeepsText ==
    (/\ last.kind = "send"
     /\ last.isDict
     /\ Get(last.data, "enable_voice", FALSE) = TRUE
     /\ last.gen = "ok"
     /\ last.tts = "fail")
    =>  /\ Len(last.emits) = 1
        /\ last.emits[1].event = "receive_message"
        /\ last.emits[1].payload["response"] = last.text
        /\ last.emits[1].payload["status"] = "success"
        /\ "voice_error" \in DOMAIN last.emits[1].payload
        /\ "audio" \notin DOMAIN last.emits[1].payload

\* C3 witness: such a request has been answered.
C3_Witness ==
    /\ last.kind = "send"
    /\ Get(last.data, "enable_voice", FALSE) = TRUE
    /\ last.gen = "ok"
    /\ last.tts = "fail"
    /\ last.text = "Hello!"

\* C4: a successful GET /api/models returns a list whose first element is
\* marked preferred, whatever the provider lists.
C4_PreferredFirst ==
    (ModelsDone /\ httpResp.code = 200) =>
        /\ Len(httpResp.json.models) >= 1
        /\ "preferred" \in DOMAIN httpResp.json.models[1]
        /\ httpResp.json.models[1]["preferred"] = TRUE

\* C5: POST /api/switch_model with the default model name succeeds whenever
\* the provider call does not fail.
C5_DefaultAlwaysAccepted ==
    (SwitchDone /\ ~providerFails /\ RequestedName = DefaultModel) =>
        /\ httpResp.code = 200
        /\ httpResp.json.status = "success"

\* C6: POST /api/switch_model answers 400 with status error, and not success,
\* when no provider name contains the requested name and the requested name is
\* not the default.
C6_UnknownModelRejected ==
    (/\ SwitchDone
     /\ ~providerFails
     /\ RequestedName # DefaultModel
     /\ \A k \in 1 .. Len(provider) : ~Contains(RequestedName, provider[k].name))
    =>  /\ httpResp.code = 400
        /\ httpResp.json.status = "error"
        /\ "model" \notin DOMAIN httpResp.json

\* C6 witness: a name that none of a non-empty provider list contains has
\* been refused.
C6_Witness ==
    /\ SwitchDone
    /\ ~providerFails
    /\ Len(provider) = 2
    /\ RequestedName = <<"G">>
    /\ httpResp.code = 400

\* C7: a send_message whose model is absent or empty calls the completion
\* client with the default model name, and the payload
\* {message: "hi", model: "", temperature: 0.7} calls it with prompt "hi".
C7_EmptyModelResolvesToDefault ==
    \A i \in Blocked :
        (pending[i].pc = "generate" /\ Get(pending[i].data, "model", "") = "")
        =>  /\ Len(pending[i].calls) = 1
            /\ pending[i].calls[1].model = SendDefaultModel
            /\ (Get(pending[i].data, "message", "") = "hi"
                    => pending[i].calls[1].prompt = "hi")

\* C8: a start_screen_sharing whose screen_data is absent or empty emits a
\* screen_sharing_status with the waiting message and no
\* screen_sharing_response, and never calls the completion client.
C8_NoScreenDataNoCall ==
    /\ \A i \in Blocked :
           pending[i].pc = "vision"
               => Truthy(Get(pending[i].data, "screen_data", None))
    /\ (/\ last.kind = "screen"
        /\ last.isDict
        /\ ~Truthy(Get(last.data, "screen_data", None)))
       =>  /\ last.calls = <<>>
           /\ \E k \in 1 .. Len(last.emits) :
                 /\ last.emits[k].event = "screen_sharing_status"
                 /\ last.emits[k].payload["status"]
                        = "Screen sharing started, waiting for data"
           /\ \A k \in 1 .. Len(last.emits) :
                 last.emits[k].event # "screen_sharing_response"

\* C8 witness: a start_screen_sharing with an empty screen_data has been
\* handled.
C8_Witness ==
    /\ last.kind = "screen"
    /\ last.isDict
    /\ "screen_data" \in DOMAIN last.data
    /\ last.data["screen_data"] = ""
    /\ Len(last.emits) = 1

\* C9: every event emitted while handling a start_screen_sharing is received
\* by the requesting connection only.
C9_ScreenEventsOnlyToSender ==
    last.kind = "screen" =>
        \A k \in 1 .. Len(last.emits) : last.emits[k].recv \subseteq {last.sid}

\* C10: a successful POST /api/switch_model returns the first provider name,
\* in provider order, that contains the requested name, character case
\* included.
C10_FirstMatchReturned ==
    (SwitchDone /\ httpResp.code = 200) =>
        \E k \in 1 .. Len(provider) :
            /\ httpResp.json.model = provider[k].name
            /\ Contains(RequestedName, provider[k].name)
            /\ \A j \in 1 .. (k - 1) : ~Contains(RequestedName, provider[j].name)

\* C10 witness: two different provider names contain the requested name and
\* the request has succeeded.
C10_Witness ==
    /\ SwitchDone
    /\ httpResp.code = 200
    /\ Len(provider) = 2
    /\ provider[1].name # provider[2].name
    /\ Contains(RequestedName, provider[1].name)
    /\ Contains(RequestedName, provider[2].name)
    /\ RequestedName # <<>>

====
